---- MODULE Spec2Model ----
(***************************************************************************)
(* lib::AvlOrderedSet<T> and lib::AvlNode<T> (src/src/plane.hpp, namespace *)
(* lib, lines 645-989), modelled over an explicit heap.                    *)
(*                                                                         *)
(* An address is a natural number; heap[a] is the AvlNode object stored at *)
(* a.  A std::unique_ptr<AvlNode> is the address it owns, or Null.  Moving *)
(* out of a unique_ptr slot stores Null in it; move-assigning into a slot  *)
(* destroys the node the slot owned before (with everything that node      *)
(* still owns).  T is int, restricted to Vals.                             *)
(***************************************************************************)
EXTENDS Integers, Sequences, FiniteSets, TLC

Max(a, b) == IF a >= b THEN a ELSE b

\* Largest value handed to insert / remove / find / upper_bound.
MaxVal == 5

Vals == 1..MaxVal

\* The set objects of the program: a, and b where copies and moves are made.
Sets == {"a", "b"}

\* Addresses, in three banks of one header and one node per value: room for
\* two sets and for the copy that operator= builds before it destroys the
\* tree it replaces.
Bank == MaxVal + 1
NumAddr == Bank + Bank + Bank
Addr == 1..NumAddr

\* nullptr.
Null == 0

\* The content of a field that a constructor leaves uninitialised
\* (AvlNode() initialises left and right only).
Uninit == -1

\* A walk or iterator step that read an uninitialised or null pointer.
Bad == -2

(***************************************************************************)
(* Node objects                                                            *)
(***************************************************************************)

\* AvlNode(T value): value(value), height(1), left, right, parent nullptr.
AvlNode(v) ==
  [value |-> v, height |-> 1, left |-> Null, right |-> Null, parent |-> Null]

\* AvlNode(): left(nullptr); right is a default unique_ptr (nullptr); value,
\* height and parent are not initialised.
AvlNodeDefault ==
  [value |-> Uninit, height |-> Uninit, left |-> Null, right |-> Null,
   parent |-> Uninit]

\* Memory that holds no object.
FreeCell ==
  [value |-> 0, height |-> 0, left |-> Null, right |-> Null, parent |-> Null]

\* std::make_unique: the address of the new object.  The code compares
\* addresses for equality only, so which free address the allocator hands
\* out makes no difference to it.  A header goes to place 1 of the first
\* bank that has none; the node for value v goes to place v + 1 of the bank
\* of its tree's header, or to the lowest free address when that is taken.
BankOf(hdr) == ((hdr - 1) \div Bank) * Bank

LowestFree(h) ==
  CHOOSE a \in Addr : h[a] = FreeCell /\ \A b \in Addr : h[b] = FreeCell => a <= b

AllocHeader(h) ==
  IF h[1] = FreeCell THEN 1
  ELSE IF h[1 + Bank] = FreeCell THEN 1 + Bank
  ELSE IF h[1 + Bank + Bank] = FreeCell THEN 1 + Bank + Bank
  ELSE LowestFree(h)

Alloc(h, v, hdr) ==
  IF h[BankOf(hdr) + v + 1] = FreeCell THEN BankOf(hdr) + v + 1
  ELSE LowestFree(h)

\* ~AvlNode: the node's unique_ptr members destroy what they own.
RECURSIVE Destroy(_, _)
Destroy(h, n) ==
  IF n = Null THEN h
  ELSE LET hl == Destroy(h, h[n].left)
           hr == Destroy(hl, h[n].right)
       IN [hr EXCEPT ![n] = FreeCell]

\* A unique_ptr member of a node: <<owner address, "left" | "right">>.
Get(h, slot) == IF slot[2] = "left" THEN h[slot[1]].left ELSE h[slot[1]].right

Put(h, slot, x) ==
  IF slot[2] = "left" THEN [h EXCEPT ![slot[1]].left = x]
  ELSE [h EXCEPT ![slot[1]].right = x]

(***************************************************************************)
(* AvlNode members                                                         *)
(***************************************************************************)

\* A faulty get_balance: left height minus right height.
get_balance_flipped(h, n) ==
  (IF h[n].left # Null THEN h[h[n].left].height ELSE 0)
  - (IF h[n].right # Null THEN h[h[n].right].height ELSE 0)

get_balance(h, n) ==
  (IF h[n].right # Null THEN h[h[n].right].height ELSE 0)
  - (IF h[n].left # Null THEN h[h[n].left].height ELSE 0)

update_height(h, n) ==
  [h EXCEPT ![n].height =
     Max(IF h[n].right # Null THEN h[h[n].right].height ELSE 0,
         IF h[n].left # Null THEN h[h[n].left].height ELSE 0) + 1]

\* if (child) child->parent = p;
set_parent(h, child, p) ==
  IF child # Null THEN [h EXCEPT ![child].parent = p] ELSE h

\* this->left = std::move(left) destroys what this->left owned before.
set_left(h, this, l) ==
  update_height(
    set_parent(Destroy([h EXCEPT ![this].left = l], h[this].left), l, this),
    this)

set_right(h, this, r) ==
  update_height(
    set_parent(Destroy([h EXCEPT ![this].right = r], h[this].right), r, this),
    this)

\* A faulty rotate_left: the old root is hung on the pivot's right.
rotate_left_wrong_side(h, node) ==
  LET pivot == h[node].right
  IN [heap |-> set_right(
                 set_right([h EXCEPT ![node].right = Null, ![pivot].left = Null],
                           node, h[pivot].left),
                 pivot, node),
      node |-> pivot]

\* node is owned by the parameter; the result is owned by the return value.
\* pivot = std::move(node->right) and std::move(pivot->left) empty both slots.
rotate_left(h, node) ==
  LET pivot == h[node].right
  IN [heap |-> set_left(
                 set_right([h EXCEPT ![node].right = Null, ![pivot].left = Null],
                           node, h[pivot].left),
                 pivot, node),
      node |-> pivot]

rotate_right(h, node) ==
  LET pivot == h[node].left
  IN [heap |-> set_right(
                 set_left([h EXCEPT ![node].left = Null, ![pivot].right = Null],
                          node, h[pivot].right),
                 pivot, node),
      node |-> pivot]

\* node->right = <r>; node->right->parent = node.get();
relink_right(r, node) ==
  [r.heap EXCEPT ![node].right = r.node, ![r.node].parent = node]

relink_left(r, node) ==
  [r.heap EXCEPT ![node].left = r.node, ![r.node].parent = node]

\* A faulty balance_tree: the inner rotation of the heavy child is missing.
balance_tree_single(h, node) ==
  IF node = Null THEN [heap |-> h, node |-> node]
  ELSE IF get_balance(h, node) = 2 THEN rotate_left(h, node)
  ELSE IF get_balance(h, node) = -2 THEN rotate_right(h, node)
  ELSE [heap |-> h, node |-> node]

balance_tree(h, node) ==
  IF node = Null THEN [heap |-> h, node |-> node]
  ELSE IF get_balance(h, node) = 2 THEN
    rotate_left(
      IF get_balance(h, h[node].right) = -1
      THEN relink_right(
             rotate_right([h EXCEPT ![node].right = Null], h[node].right), node)
      ELSE h,
      node)
  ELSE IF get_balance(h, node) = -2 THEN
    rotate_right(
      IF get_balance(h, h[node].left) = 1
      THEN relink_left(
             rotate_left([h EXCEPT ![node].left = Null], h[node].left), node)
      ELSE h,
      node)
  ELSE [heap |-> h, node |-> node]

(***************************************************************************)
(* Iterators: an iterator is the address of the node it refers to.         *)
(***************************************************************************)

RECURSIVE descend_left(_, _)
descend_left(h, n) == IF h[n].left # Null THEN descend_left(h, h[n].left) ELSE n

RECURSIVE descend_right(_, _)
descend_right(h, n) ==
  IF h[n].right # Null THEN descend_right(h, h[n].right) ELSE n

\* while (node->parent && node == node->parent->right.get()) node = node->parent;
\* Bad when the loop reads an uninitialised parent (the header's).
RECURSIVE ascend_from_right(_, _)
ascend_from_right(h, n) ==
  IF h[n].parent = Uninit THEN Bad
  ELSE IF h[n].parent # Null /\ n = h[h[n].parent].right
       THEN ascend_from_right(h, h[n].parent)
       ELSE n

RECURSIVE ascend_from_left(_, _)
ascend_from_left(h, n) ==
  IF h[n].parent = Uninit THEN Bad
  ELSE IF h[n].parent # Null /\ n = h[h[n].parent].left
       THEN ascend_from_left(h, h[n].parent)
       ELSE n

\* node = node->parent after the ascent.
step_to_parent(h, top) ==
  IF top = Bad THEN Bad
  ELSE IF h[top].parent = Uninit THEN Bad
  ELSE h[top].parent

\* A faulty operator++: it steps to the right child and does not go on to
\* the leftmost node below it.
operator_inc_no_descent(h, node) ==
  IF h[node].right # Null THEN h[node].right
  ELSE step_to_parent(h, ascend_from_right(h, node))

\* iterator::operator++: the node the iterator refers to afterwards.
operator_inc(h, node) ==
  IF h[node].right # Null THEN descend_left(h, h[node].right)
  ELSE step_to_parent(h, ascend_from_right(h, node))

\* A faulty operator--: it steps to the left child and does not go on to
\* the rightmost node below it.
operator_dec_no_descent(h, node) ==
  IF h[node].left # Null THEN h[node].left
  ELSE step_to_parent(h, ascend_from_left(h, node))

\* iterator::operator--.
operator_dec(h, node) ==
  IF h[node].left # Null THEN descend_right(h, h[node].left)
  ELSE step_to_parent(h, ascend_from_left(h, node))

(***************************************************************************)
(* AvlOrderedSet members; hdr is header_.get().                            *)
(***************************************************************************)

RECURSIVE find_loop(_, _, _, _)
find_loop(h, hdr, current, v) ==
  IF current = Null THEN hdr
  ELSE IF h[current].value = v THEN current
  ELSE IF h[current].value > v THEN find_loop(h, hdr, h[current].left, v)
  ELSE find_loop(h, hdr, h[current].right, v)

\* A faulty find: the descent starts at header_->right.
find_from_right(h, hdr, v) == find_loop(h, hdr, h[hdr].right, v)

find(h, hdr, v) == find_loop(h, hdr, h[hdr].left, v)

\* A faulty upper_bound loop: a node equal to the value is taken as a bound.
RECURSIVE upper_bound_loop_inclusive(_, _, _, _)
upper_bound_loop_inclusive(h, result, current, v) ==
  IF current = Null THEN result
  ELSE IF h[current].value < v
       THEN upper_bound_loop_inclusive(h, result, h[current].right, v)
       ELSE upper_bound_loop_inclusive(h, current, h[current].left, v)

RECURSIVE upper_bound_loop(_, _, _, _)
upper_bound_loop(h, result, current, v) ==
  IF current = Null THEN result
  ELSE IF h[current].value <= v
       THEN upper_bound_loop(h, result, h[current].right, v)
       ELSE upper_bound_loop(h, current, h[current].left, v)

upper_bound(h, hdr, v) == upper_bound_loop(h, hdr, h[hdr].left, v)

\* auto& child = current->left.get() == node.parent ? current->left
\*                                                  : current->right;
child_slot(h, node, current) ==
  IF h[current].left = h[node].parent
  THEN <<current, "left">> ELSE <<current, "right">>

\* A faulty relinking: the parent of the subtree's new root is not set.
relink_child_no_parent(r, child, current) == Put(r.heap, child, r.node)

\* child = <r>; if (child) child->parent = current;
relink_child(r, child, current) ==
  set_parent(Put(r.heap, child, r.node), r.node, current)

\* One turn of the loop of balance_ancestors_, up to the relinking.
balance_child(h, node, current) ==
  relink_child(
    balance_tree(Put(h, child_slot(h, node, current), Null),
                 Get(h, child_slot(h, node, current))),
    child_slot(h, node, current), current)

RECURSIVE balance_ancestors_loop(_, _, _, _)

\* current = current->parent; and the next turn.
balance_ancestors_advance(h, hdr, node, current) ==
  balance_ancestors_loop(h, hdr, node, h[current].parent)

\* while (current != header_.get()) { ... }
balance_ancestors_loop(h, hdr, node, current) ==
  IF current = hdr THEN h
  ELSE balance_ancestors_advance(balance_child(h, node, current),
                                 hdr, node, current)

balance_ancestors_(h, hdr, node) ==
  balance_ancestors_loop(h, hdr, node, h[node].parent)

\* Every rotation that balance_tree(node) invokes is handed a node with the
\* child it takes as pivot: node->right for rotate_left, node->left for
\* rotate_right.  Without it the rotation goes through a null pointer.
rotations_defined(h, node) ==
  IF node = Null THEN TRUE
  ELSE IF get_balance(h, node) = 2
  THEN /\ h[node].right # Null
       /\ get_balance(h, h[node].right) = -1 => h[h[node].right].left # Null
  ELSE IF get_balance(h, node) = -2
  THEN /\ h[node].left # Null
       /\ get_balance(h, h[node].left) = 1 => h[h[node].left].right # Null
  ELSE TRUE

\* The same for every call of balance_tree in balance_ancestors_(node), from
\* the turn at current on.
RECURSIVE balance_ancestors_defined(_, _, _, _)
balance_ancestors_defined(h, hdr, node, current) ==
  IF current = hdr THEN TRUE
  ELSE /\ rotations_defined(h, Get(h, child_slot(h, node, current)))
       /\ balance_ancestors_defined(
            balance_child(h, node, current), hdr, node,
            balance_child(h, node, current)[current].parent)

update_leftmost_(h, hdr) == descend_left(h, hdr)

\* The descent of insert: the slot reached and the last node passed, or the
\* fact that an equal value was met.
RECURSIVE insert_descend(_, _, _, _)
insert_descend(h, current, parent, v) ==
  IF Get(h, current) = Null
  THEN [dup |-> FALSE, current |-> current, parent |-> parent]
  ELSE IF h[Get(h, current)].value = v
  THEN [dup |-> TRUE, current |-> current, parent |-> parent]
  ELSE IF h[Get(h, current)].value > v
  THEN insert_descend(h, <<Get(h, current), "left">>, Get(h, current), v)
  ELSE insert_descend(h, <<Get(h, current), "right">>, Get(h, current), v)

\* balance_ancestors_(**current); update_leftmost_();
\* rot: a rotation went through a null pointer; heap is then the memory at
\* the call of balance_ancestors_.
insert_balance(h, hdr, lm, a) ==
  IF balance_ancestors_defined(h, hdr, a, h[a].parent)
  THEN [heap |-> balance_ancestors_(h, hdr, a),
        leftmost_ |-> update_leftmost_(balance_ancestors_(h, hdr, a), hdr),
        ub |-> FALSE, rot |-> FALSE]
  ELSE [heap |-> h, leftmost_ |-> lm, ub |-> TRUE, rot |-> TRUE]

\* *current = make_unique<AvlNode<T>>(AvlNode(value));
\* (*current)->parent = parent; parent->update_height();
insert_attach(h, d, a, v) ==
  update_height(
    [Put([h EXCEPT ![a] = AvlNode(v)], d.current, a) EXCEPT
       ![a].parent = d.parent],
    d.parent)

insert_leaf(h, hdr, lm, d, a, v) ==
  insert_balance(insert_attach(h, d, a, v), hdr, lm, a)

\* A faulty insert: the early return for an equal value is missing.
insert_at_no_return(h, hdr, lm, d, v) ==
  insert_leaf(h, hdr, lm, d, Alloc(h, v, hdr), v)

insert_at(h, hdr, lm, d, v) ==
  IF d.dup THEN [heap |-> h, leftmost_ |-> lm, ub |-> FALSE, rot |-> FALSE]
  ELSE insert_leaf(h, hdr, lm, d, Alloc(h, v, hdr), v)

insert(h, hdr, lm, v) ==
  insert_at(h, hdr, lm, insert_descend(h, <<hdr, "left">>, hdr, v), v)

\* auto& rm = (node->parent->left.get() == node) ? node->parent->left
\*                                               : node->parent->right;
rm_slot(h, node) ==
  IF h[h[node].parent].left = node THEN <<h[node].parent, "left">>
  ELSE <<h[node].parent, "right">>

\* The successor search of remove: the slot holding the leftmost node of
\* rm->right, and the slot holding that node's parent.
RECURSIVE succ_descend(_, _, _)
succ_descend(h, succ, parent) ==
  IF h[Get(h, succ)].left # Null
  THEN succ_descend(h, <<Get(h, succ), "left">>, succ)
  ELSE [succ |-> succ, parent |-> parent]

\* if (rm) balance_ancestors_(*rm.get()); update_leftmost_();
remove_balance(h, hdr, lm, rm) ==
  IF Get(h, rm) = Null
  THEN [heap |-> h, leftmost_ |-> update_leftmost_(h, hdr),
        ub |-> FALSE, rot |-> FALSE]
  ELSE IF balance_ancestors_defined(h, hdr, Get(h, rm), h[Get(h, rm)].parent)
  THEN [heap |-> balance_ancestors_(h, hdr, Get(h, rm)),
        leftmost_ |-> update_leftmost_(
                        balance_ancestors_(h, hdr, Get(h, rm)), hdr),
        ub |-> FALSE, rot |-> FALSE]
  ELSE [heap |-> h, leftmost_ |-> lm, ub |-> TRUE, rot |-> TRUE]

\* A faulty end of remove: rm = std::move(replacement) is missing.
remove_replace_no_assign(h, hdr, lm, node, rm, replacement) ==
  remove_balance(set_parent(h, replacement, h[node].parent), hdr, lm, rm)

\* if (replacement) replacement->parent = rm->parent;
\* rm = std::move(replacement);   (destroys the node rm owned)
remove_replace(h, hdr, lm, node, rm, replacement) ==
  remove_balance(
    Destroy(Put(set_parent(h, replacement, h[node].parent), rm, replacement),
            node),
    hdr, lm, rm)

\* replacement = std::move(<the slot from>);
remove_move(h, hdr, lm, node, rm, from) ==
  remove_replace(Put(h, from, Null), hdr, lm, node, rm, Get(h, from))

\* (*succ)->set_left(std::move(rm->left)); replacement = std::move(*succ);
remove_take(h, hdr, lm, node, rm, succ) ==
  remove_move(
    set_left([h EXCEPT ![node].left = Null], Get(h, succ), h[node].left),
    hdr, lm, node, rm, succ)

\* (*succ)->set_right(std::move(rm->right)), with *succ as the set_left
\* before left it.  ub: *succ is empty and the call goes through a null
\* pointer; heap is then the memory at that point.
remove_far(h, hdr, lm, node, rm, sd) ==
  IF Get(h, sd.succ) = Null
  THEN [heap |-> h, leftmost_ |-> lm, ub |-> TRUE, rot |-> FALSE]
  ELSE remove_take(
         set_right([h EXCEPT ![node].right = Null], Get(h, sd.succ),
                   h[node].right),
         hdr, lm, node, rm, sd.succ)

\* if (*parent != rm) { (*parent)->set_left(std::move((*succ)->right)); ... }
remove_two(h, hdr, lm, node, rm, sd) ==
  IF Get(h, sd.parent) # Get(h, rm)
  THEN remove_far(
         set_left([h EXCEPT ![Get(h, sd.succ)].right = Null],
                  Get(h, sd.parent), h[Get(h, sd.succ)].right),
         hdr, lm, node, rm, sd)
  ELSE remove_take(h, hdr, lm, node, rm, sd.succ)

remove_node(h, hdr, lm, node) ==
  IF node = hdr
  THEN [heap |-> h, leftmost_ |-> lm, ub |-> FALSE, rot |-> FALSE]
  ELSE IF h[node].left # Null /\ h[node].right # Null
  THEN remove_two(h, hdr, lm, node, rm_slot(h, node),
                  succ_descend(h, <<node, "right">>, rm_slot(h, node)))
  ELSE remove_move(h, hdr, lm, node, rm_slot(h, node),
                   IF h[node].left # Null THEN <<node, "left">>
                   ELSE <<node, "right">>)

\* A faulty remove: the node is looked up with upper_bound.
remove_by_upper_bound(h, hdr, lm, v) ==
  remove_node(h, hdr, lm, upper_bound(h, hdr, v))

remove(h, hdr, lm, v) == remove_node(h, hdr, lm, find(h, hdr, v))

\* The lambda deep_copy of operator=(const AvlOrderedSet&).  The copy is
\* default-constructed, so its parent stays uninitialised until the caller
\* one level up sets it; copying an uninitialised value or height leaves the
\* copy's field indeterminate as well.  hdr is the copy of the header (Null
\* while the header itself is copied): only the allocator looks at it.
RECURSIVE deep_copy(_, _, _)

\* copy->right = <r>; if (copy->left) ...->parent = copy.get(); same for right.
deep_copy_fix(left, r, copy) ==
  [heap |-> set_parent(
              set_parent([r.heap EXCEPT ![copy].right = r.node], left, copy),
              r.node, copy),
   node |-> copy]

\* copy->left = <l>; copy->right = self(node->right.get());
deep_copy_right(l, node, copy, hdr) ==
  deep_copy_fix(
    l.node,
    deep_copy([l.heap EXCEPT ![copy].left = l.node], l.heap[node].right, hdr),
    copy)

\* copy->value = node->value; copy->height = node->height;
\* copy->left = self(node->left.get());
deep_copy_node(h, node, copy, hdr) ==
  deep_copy_right(
    deep_copy([h EXCEPT ![copy] =
                 [AvlNodeDefault EXCEPT !.value = h[node].value,
                                        !.height = h[node].height]],
              h[node].left, hdr),
    node, copy, hdr)

deep_copy(h, node, hdr) ==
  IF node = Null THEN [heap |-> h, node |-> Null]
  ELSE IF hdr = Null
  THEN deep_copy_node(h, node, AllocHeader(h), AllocHeader(h))
  ELSE deep_copy_node(h, node, Alloc(h, h[node].value, hdr), hdr)

\* header_ = <c>; leftmost_ = header_.get();  (destroys the old tree)
copy_take(c, hdr) ==
  [heap |-> Destroy(c.heap, hdr), header_ |-> c.node, leftmost_ |-> c.node]

\* A faulty copy: the set takes the other set's header instead of a copy.
copy_assign_shallow(h, hdr, other_hdr) ==
  [heap |-> h, header_ |-> other_hdr, leftmost_ |-> other_hdr]

\* operator=(const AvlOrderedSet& other) on a set whose header_ is hdr (Null
\* in the copy constructor).
copy_assign(h, hdr, other_hdr) == copy_take(deep_copy(h, other_hdr, Null), hdr)

\* A faulty move: the fresh header goes to this set and the other set keeps
\* its tree.
move_fresh_swapped(h, other_hdr, fresh) ==
  [heap |-> [h EXCEPT ![fresh] = AvlNodeDefault],
   header_ |-> fresh, leftmost_ |-> fresh,
   other_header_ |-> other_hdr, other_leftmost_ |-> other_hdr]

\* A faulty move: other.leftmost_ is set to the header that was moved away.
move_fresh_stale_leftmost(h, other_hdr, fresh) ==
  [heap |-> [h EXCEPT ![fresh] = AvlNodeDefault],
   header_ |-> other_hdr, leftmost_ |-> other_hdr,
   other_header_ |-> fresh, other_leftmost_ |-> other_hdr]

\* other.header_ = make_unique<AvlNode<T>>(); leftmost_ = header_.get();
\* other.leftmost_ = other.header_.get();
move_fresh(h, other_hdr, fresh) ==
  [heap |-> [h EXCEPT ![fresh] = AvlNodeDefault],
   header_ |-> other_hdr, leftmost_ |-> other_hdr,
   other_header_ |-> fresh, other_leftmost_ |-> fresh]

\* header_ = std::move(other.header_) destroys the tree this set owned.
move_take(h, other_hdr) == move_fresh(h, other_hdr, AllocHeader(h))

\* operator=(AvlOrderedSet&& other), this # &other.
move_assign(h, hdr, other_hdr) == move_take(Destroy(h, hdr), other_hdr)

(***************************************************************************)
(* What a set holds, read off the links                                    *)
(***************************************************************************)

\* The nodes of the subtree that the unique_ptr n owns.
RECURSIVE Nodes(_, _)
Nodes(h, n) ==
  IF n = Null THEN {}
  ELSE {n} \cup Nodes(h, h[n].left) \cup Nodes(h, h[n].right)

\* The nodes of the set whose header is hdr.
Tree(h, hdr) == Nodes(h, h[hdr].left)

\* v is held by a node of the set.
Member(h, hdr, v) == \E n \in Tree(h, hdr) : h[n].value = v

\* The height of the subtree at n, from its shape.
RECURSIVE TrueHeight(_, _)
TrueHeight(h, n) ==
  IF n = Null THEN 0
  ELSE 1 + Max(TrueHeight(h, h[n].left), TrueHeight(h, h[n].right))

(***************************************************************************)
(* State                                                                   *)
(***************************************************************************)

VARIABLES
  heap,       \* the AvlNode object at every address, FreeCell where none
  header_,    \* header_[s]: AvlOrderedSet::header_ of set s; Null before s
              \* is constructed
  leftmost_,  \* leftmost_[s]: AvlOrderedSet::leftmost_ of set s
  it,         \* the node of the caller's iterator; Null before it has one
  crashed,    \* a call dereferenced a null or uninitialised pointer
  last,       \* the last call made: its name, argument and set, and whether
              \* the argument was a member (for find: was found)
  members     \* members[s]: the values set s is meant to hold

vars == <<heap, header_, leftmost_, it, crashed, last, members>>

\* AvlOrderedSet<int> a;
\* AvlOrderedSet(): header_ = make_unique<AvlNode<T>>(); leftmost_ = header_.get()
Init ==
  /\ heap = [n \in Addr |-> IF n = 1 THEN AvlNodeDefault ELSE FreeCell]
  /\ header_ = [s \in Sets |-> IF s = "a" THEN 1 ELSE Null]
  /\ leftmost_ = [s \in Sets |-> IF s = "a" THEN 1 ELSE Uninit]
  /\ it = Null
  /\ crashed = FALSE
  /\ last = [op |-> "new", arg |-> 0, set |-> "a", hit |-> FALSE]
  /\ members = [s \in Sets |-> {}]

\* AvlOrderedSet<int> b;
Construct(s) ==
  /\ ~crashed
  /\ header_[s] = Null
  /\ LET n == AllocHeader(heap)
     IN /\ heap' = [heap EXCEPT ![n] = AvlNodeDefault]
        /\ header_' = [header_ EXCEPT ![s] = n]
        /\ leftmost_' = [leftmost_ EXCEPT ![s] = n]
  /\ last' = [op |-> "new", arg |-> 0, set |-> s, hit |-> FALSE]
  /\ UNCHANGED <<it, crashed, members>>

Insert(s, v) ==
  /\ ~crashed
  /\ header_[s] # Null
  /\ LET r == insert(heap, header_[s], leftmost_[s], v)
     IN /\ heap' = r.heap
        /\ leftmost_' = [leftmost_ EXCEPT ![s] = r.leftmost_]
        /\ crashed' = r.ub
  /\ last' = [op |-> "insert", arg |-> v, set |-> s,
              hit |-> Member(heap, header_[s], v)]
  /\ members' = [members EXCEPT ![s] = @ \cup {v}]
  /\ UNCHANGED <<header_, it>>

Remove(s, v) ==
  /\ ~crashed
  /\ header_[s] # Null
  /\ LET r == remove(heap, header_[s], leftmost_[s], v)
     IN /\ heap' = r.heap
        /\ leftmost_' = [leftmost_ EXCEPT ![s] = r.leftmost_]
        /\ crashed' = r.ub
  /\ last' = [op |-> "remove", arg |-> v, set |-> s,
              hit |-> Member(heap, header_[s], v)]
  /\ members' = [members EXCEPT ![s] = @ \ {v}]
  /\ UNCHANGED <<header_, it>>

\* ~AvlOrderedSet(): header_ is destroyed, and the tree with it.
Destruct(s) ==
  /\ ~crashed
  /\ header_[s] # Null
  /\ heap' = Destroy(heap, header_[s])
  /\ header_' = [header_ EXCEPT ![s] = Null]
  /\ leftmost_' = [leftmost_ EXCEPT ![s] = Uninit]
  /\ last' = [op |-> "delete", arg |-> 0, set |-> s, hit |-> FALSE]
  /\ members' = [members EXCEPT ![s] = {}]
  /\ UNCHANGED <<it, crashed>>

\* d = s (copy assignment), or the copy constructor AvlOrderedSet d(s) when d
\* is not constructed yet: the constructor is *this = other.
Copy(d, s) ==
  /\ ~crashed
  /\ d # s
  /\ header_[s] # Null
  /\ LET r == copy_assign(heap, header_[d], header_[s])
     IN /\ heap' = r.heap
        /\ header_' = [header_ EXCEPT ![d] = r.header_]
        /\ leftmost_' = [leftmost_ EXCEPT ![d] = r.leftmost_]
  /\ last' = [op |-> "copy", arg |-> 0, set |-> d, hit |-> FALSE]
  /\ members' = [members EXCEPT ![d] = members[s]]
  /\ UNCHANGED <<it, crashed>>

\* d = std::move(s), or the move constructor when d is not constructed yet.
Move(d, s) ==
  /\ ~crashed
  /\ d # s
  /\ header_[s] # Null
  /\ LET r == move_assign(heap, header_[d], header_[s])
     IN /\ heap' = r.heap
        /\ header_' = [header_ EXCEPT ![d] = r.header_, ![s] = r.other_header_]
        /\ leftmost_' = [leftmost_ EXCEPT ![d] = r.leftmost_,
                                          ![s] = r.other_leftmost_]
  /\ last' = [op |-> "move", arg |-> 0, set |-> d, hit |-> FALSE]
  /\ members' = [members EXCEPT ![d] = members[s], ![s] = {}]
  /\ UNCHANGED <<it, crashed>>

Find(s, v) ==
  /\ ~crashed
  /\ header_[s] # Null
  /\ it' = find(heap, header_[s], v)
  /\ last' = [op |-> "find", arg |-> v, set |-> s,
              hit |-> find(heap, header_[s], v) # header_[s]]
  /\ UNCHANGED <<heap, header_, leftmost_, crashed, members>>

UpperBound(s, v) ==
  /\ ~crashed
  /\ header_[s] # Null
  /\ it' = upper_bound(heap, header_[s], v)
  /\ last' = [op |-> "upper_bound", arg |-> v, set |-> s,
              hit |-> upper_bound(heap, header_[s], v) # header_[s]]
  /\ UNCHANGED <<heap, header_, leftmost_, crashed, members>>

Begin(s) ==
  /\ ~crashed
  /\ header_[s] # Null
  /\ it' = leftmost_[s]
  /\ last' = [op |-> "begin", arg |-> 0, set |-> s, hit |-> FALSE]
  /\ UNCHANGED <<heap, header_, leftmost_, crashed, members>>

End(s) ==
  /\ ~crashed
  /\ header_[s] # Null
  /\ it' = header_[s]
  /\ last' = [op |-> "end", arg |-> 0, set |-> s, hit |-> FALSE]
  /\ UNCHANGED <<heap, header_, leftmost_, crashed, members>>

\* ++it on an iterator of set s that is not end() (advancing end() is
\* outside the iterator's contract).
Inc(s) ==
  /\ ~crashed
  /\ it # Null
  /\ it # header_[s]
  /\ LET n == operator_inc(heap, it)
     IN IF n = Bad THEN crashed' = TRUE /\ it' = it
        ELSE crashed' = FALSE /\ it' = n
  /\ last' = [op |-> "inc", arg |-> 0, set |-> s, hit |-> FALSE]
  /\ UNCHANGED <<heap, header_, leftmost_, members>>

\* --it on an iterator of set s that is not begin().
Dec(s) ==
  /\ ~crashed
  /\ it # Null
  /\ it # leftmost_[s]
  /\ LET n == operator_dec(heap, it)
     IN IF n = Bad THEN crashed' = TRUE /\ it' = it
        ELSE crashed' = FALSE /\ it' = n
  /\ last' = [op |-> "dec", arg |-> 0, set |-> s, hit |-> FALSE]
  /\ UNCHANGED <<heap, header_, leftmost_, members>>

\* Any sequence of insert and remove calls on a default-constructed set.
Next ==
  \/ \E v \in Vals : Insert("a", v)
  \/ \E v \in Vals : Remove("a", v)

Spec == Init /\ [][Next]_vars

\* Any sequence of insert calls, with queries and iterator steps in between.
NextIns ==
  \/ \E v \in Vals : Insert("a", v)
  \/ \E v \in Vals : Find("a", v)
  \/ \E v \in Vals : UpperBound("a", v)
  \/ Begin("a")
  \/ End("a")
  \/ Inc("a")
  \/ Dec("a")

SpecIns == Init /\ [][NextIns]_vars

\* insert and remove on a, with a second set b that lives for a while: b is
\* default-, copy- or move-constructed, a and b are copy- and move-assigned
\* to each other, and b is destroyed before a is changed again.
NextCopyMove ==
  \/ \E v \in Vals : header_["b"] = Null /\ Insert("a", v)
  \/ \E v \in Vals : header_["b"] = Null /\ Remove("a", v)
  \/ Construct("b")
  \/ Copy("b", "a")
  \/ Copy("a", "b")
  \/ Move("b", "a")
  \/ Move("a", "b")
  \/ Destruct("b")

SpecCopyMove == Init /\ [][NextCopyMove]_vars

\* Most nodes that two live sets hold together when a run of calls on them
\* goes on.
MaxPair == 3

\* Both sets are alive.
Both == header_["a"] # Null /\ header_["b"] # Null

\* The calls made while both sets are alive: the first one after a copy or a
\* move, and any further ones while the two sets are small.
Near ==
  \/ last.op \in {"copy", "move"}
  \/ Cardinality(Tree(heap, header_["a"]))
       + Cardinality(Tree(heap, header_["b"])) < MaxPair

\* a is built alone; b is made from a by copy or move, as a new set or by
\* assignment to the b there is; then a and b are both changed.
NextTwo ==
  \/ \E v \in Vals : header_["b"] = Null /\ Insert("a", v)
  \/ \E v \in Vals : header_["b"] = Null /\ Remove("a", v)
  \/ Copy("b", "a")
  \/ Move("b", "a")
  \/ \E s \in Sets : \E v \in Vals : Both /\ Near /\ Insert(s, v)
  \/ \E s \in Sets : \E v \in Vals : Both /\ Near /\ Remove(s, v)

SpecTwo == Init /\ [][NextTwo]_vars

(***************************************************************************)
(* cpp_utils::AvlTreeSet<T> (src/src/plane.hpp, lines 71-368): the variant *)
(* with std::shared_ptr children, a std::weak_ptr parent and a cached      *)
(* subtree size.  heap[a] is the Node at a; a node is destroyed when its   *)
(* last shared_ptr goes.  The set is a, its header is header_["a"].        *)
(***************************************************************************)

\* Node{value}: size = 1, height = 1, no children, empty parent.
Node(v) ==
  [value |-> v, size |-> 1, height |-> 1, left |-> Null, right |-> Null,
   parent |-> Null]

\* Memory that holds no Node.
FreeNode ==
  [value |-> 0, size |-> 0, height |-> 0, left |-> Null, right |-> Null,
   parent |-> Null]

\* std::make_shared<Node>(value): place value + 1 of the first bank where it
\* is free, else the lowest free address (the code compares addresses for
\* equality only).
NewNode(h, v) ==
  IF h[v + 1] = FreeNode THEN v + 1
  ELSE IF h[Bank + v + 1] = FreeNode THEN Bank + v + 1
  ELSE IF h[Bank + Bank + v + 1] = FreeNode THEN Bank + Bank + v + 1
  ELSE CHOOSE a \in Addr :
         h[a] = FreeNode /\ \A b \in Addr : h[b] = FreeNode => a <= b

\* weak_ptr::lock(): empty when nothing was assigned or the node is gone.
lock(h, p) == IF p = Null THEN Null ELSE IF h[p] = FreeNode THEN Null ELSE p

rs(h, n) == IF h[n].right # Null THEN h[h[n].right].size ELSE 0

ls(h, n) == IF h[n].left # Null THEN h[h[n].left].size ELSE 0

rh(h, n) == IF h[n].right # Null THEN h[h[n].right].height ELSE 0

lh(h, n) == IF h[n].left # Null THEN h[h[n].left].height ELSE 0

recalc(h, n) ==
  [h EXCEPT ![n].size = rs(h, n) + ls(h, n) + 1,
            ![n].height = Max(rh(h, n), lh(h, n)) + 1]

getBalance(h, n) == rh(h, n) - lh(h, n)

setLeft(h, parent, left) ==
  recalc([(IF left # Null THEN [h EXCEPT ![left].parent = parent] ELSE h)
            EXCEPT ![parent].left = left],
         parent)

setRight(h, parent, right) ==
  recalc([(IF right # Null THEN [h EXCEPT ![right].parent = parent] ELSE h)
            EXCEPT ![parent].right = right],
         parent)

rotateL(h, root) ==
  [heap |-> setLeft(setRight(h, root, h[h[root].right].left),
                    h[root].right, root),
   node |-> h[root].right]

rotateR(h, root) ==
  [heap |-> setRight(setLeft(h, root, h[h[root].left].right),
                     h[root].left, root),
   node |-> h[root].left]

\* setRight(root, <r>) and setLeft(root, <r>) for a rotated subtree r.
setRightRotated(r, root) == setRight(r.heap, root, r.node)

setLeftRotated(r, root) == setLeft(r.heap, root, r.node)

balanceTree(h, root) ==
  IF getBalance(h, root) = 2 THEN
    rotateL(IF getBalance(h, h[root].right) = -1
            THEN setRightRotated(rotateR(h, h[root].right), root)
            ELSE h,
            root)
  ELSE IF getBalance(h, root) = -2 THEN
    rotateR(IF getBalance(h, h[root].left) = 1
            THEN setLeftRotated(rotateL(h, h[root].left), root)
            ELSE h,
            root)
  ELSE [heap |-> h, node |-> root]

\* auto& ref = (parent->left == cur) ? parent->left : parent->right;
ref_slot(h, parent, cur) ==
  IF h[parent].left = cur THEN <<parent, "left">> ELSE <<parent, "right">>

\* ref = <r>; ref->parent = parent;
updateAncestors_relink(r, ref, parent) ==
  [Put(r.heap, ref, r.node) EXCEPT ![r.node].parent = parent]

\* while (auto parent = cur->parent.lock()) { ...; cur = parent; }
RECURSIVE updateAncestors_loop(_, _)
updateAncestors_loop(h, cur) ==
  IF lock(h, h[cur].parent) = Null THEN h
  ELSE updateAncestors_loop(
         updateAncestors_relink(balanceTree(h, cur),
                                ref_slot(h, h[cur].parent, cur),
                                h[cur].parent),
         h[cur].parent)

updateAncestors(h, start) == updateAncestors_loop(recalc(h, start), start)

updateLeftmost(h, hdr) == descend_left(h, hdr)

\* The descent of insert: the last node passed.
RECURSIVE insert_prev(_, _, _, _)
insert_prev(h, prev, cur, v) ==
  IF cur = Null THEN prev
  ELSE insert_prev(h, cur,
                   IF v < h[cur].value THEN h[cur].left ELSE h[cur].right, v)

\* updateAncestors(prev); updateLeftmost(); return iterator(new_node);
AvlTreeSet_insert_update(h, hdr, prev, a) ==
  [heap |-> updateAncestors(h, prev),
   leftmost |-> updateLeftmost(updateAncestors(h, prev), hdr),
   node |-> a]

\* ref = new_node; new_node->parent = prev; ...
AvlTreeSet_insert_under(h, hdr, lm, prev, a, v) ==
  IF v = h[prev].value THEN [heap |-> h, leftmost |-> lm, node |-> prev]
  ELSE AvlTreeSet_insert_update(
         Put([h EXCEPT ![a] = [Node(v) EXCEPT !.parent = prev]],
             <<prev, IF v < h[prev].value THEN "left" ELSE "right">>, a),
         hdr, prev, a)

\* if (begin() == end()) { bst_root = new_node; bst_root->parent = header; ... }
AvlTreeSet_insert_at(h, hdr, lm, a, v) ==
  IF lm = hdr
  THEN [heap |-> [h EXCEPT ![a] = [Node(v) EXCEPT !.parent = hdr],
                           ![hdr].left = a],
        leftmost |-> updateLeftmost(
                       [h EXCEPT ![a] = [Node(v) EXCEPT !.parent = hdr],
                                 ![hdr].left = a], hdr),
        node |-> a]
  ELSE AvlTreeSet_insert_under(h, hdr, lm,
                               insert_prev(h, Null, h[hdr].left, v), a, v)

AvlTreeSet_insert(h, hdr, lm, v) ==
  AvlTreeSet_insert_at(h, hdr, lm, NewNode(h, v), v)

AvlTreeSet_find(h, hdr, v) == find_loop(h, hdr, h[hdr].left, v)

\* while (succ->left) { parent = succ; succ = succ->left; }
RECURSIVE succ_walk(_, _, _)
succ_walk(h, succ, parent) ==
  IF h[succ].left # Null THEN succ_walk(h, h[succ].left, succ)
  ELSE [succ |-> succ, parent |-> parent]

\* updateAncestors(parent); updateLeftmost(); and the removed node goes with
\* the iterator that referred to it.
AvlTreeSet_remove_update(h, hdr, rm, parent) ==
  [heap |-> [updateAncestors(h, parent) EXCEPT ![rm] = FreeNode],
   leftmost |-> updateLeftmost(updateAncestors(h, parent), hdr)]

\* ref = replacement; if (ref) ref->parent = parent;
AvlTreeSet_remove_replace(h, hdr, rm, replacement, parent) ==
  AvlTreeSet_remove_update(
    Put(IF replacement # Null
        THEN [h EXCEPT ![replacement].parent = parent] ELSE h,
        ref_slot(h, parent, rm), replacement),
    hdr, rm, parent)

\* setLeft(succ, rm->left); replacement = succ;
AvlTreeSet_remove_take(h, hdr, rm, succ) ==
  AvlTreeSet_remove_replace(setLeft(h, succ, h[rm].left), hdr, rm, succ,
                            lock(h, h[rm].parent))

\* setRight(succ, rm->right);
AvlTreeSet_remove_far(h, hdr, rm, succ) ==
  AvlTreeSet_remove_take(setRight(h, succ, h[rm].right), hdr, rm, succ)

AvlTreeSet_remove_two(h, hdr, rm, sd) ==
  IF sd.parent # rm
  THEN AvlTreeSet_remove_far(setLeft(h, sd.parent, h[sd.succ].right),
                             hdr, rm, sd.succ)
  ELSE AvlTreeSet_remove_take(h, hdr, rm, sd.succ)

AvlTreeSet_remove(h, hdr, lm, rm) ==
  IF rm = hdr THEN [heap |-> h, leftmost |-> lm]
  ELSE IF h[rm].left # Null /\ h[rm].right # Null
  THEN AvlTreeSet_remove_two(h, hdr, rm, succ_walk(h, h[rm].right, rm))
  ELSE AvlTreeSet_remove_replace(
         h, hdr, rm, IF h[rm].left # Null THEN h[rm].left ELSE h[rm].right,
         lock(h, h[rm].parent))

\* while ((parent = cur->parent.lock()) != header) { ... }; Bad when the walk
\* runs off the tree without meeting the header.
RECURSIVE rank_loop(_, _, _, _)
rank_loop(h, hdr, cur, rank) ==
  IF lock(h, h[cur].parent) = hdr THEN rank
  ELSE IF lock(h, h[cur].parent) = Null THEN Bad
  ELSE rank_loop(h, hdr, h[cur].parent,
                 IF cur = h[h[cur].parent].left
                 THEN rank + rs(h, h[cur].parent) + 1 ELSE rank)

rank(h, hdr, node) ==
  IF node = hdr THEN 0 ELSE rank_loop(h, hdr, node, rs(h, node))

\* AvlTreeSet<int> a;  header = make_shared<Node>(), leftmost = header.
AvlTreeSet_Init ==
  /\ heap = [n \in Addr |-> IF n = 1 THEN Node(0) ELSE FreeNode]
  /\ header_ = [s \in Sets |-> IF s = "a" THEN 1 ELSE Null]
  /\ leftmost_ = [s \in Sets |-> IF s = "a" THEN 1 ELSE Uninit]
  /\ it = Null
  /\ crashed = FALSE
  /\ last = [op |-> "new", arg |-> 0, set |-> "a", hit |-> FALSE, ret |-> 0]
  /\ members = [s \in Sets |-> {}]

\* Most nodes an AvlTreeSet holds (its insert can add a node for a value
\* that is there already).
MaxNodes == 4

\* a.insert(v)
AvlTreeSet_Insert(v) ==
  /\ ~crashed
  /\ Cardinality(Tree(heap, header_["a"])) < MaxNodes
  /\ LET r == AvlTreeSet_insert(heap, header_["a"], leftmost_["a"], v)
     IN /\ heap' = r.heap
        /\ leftmost_' = [leftmost_ EXCEPT !["a"] = r.leftmost]
        /\ last' = [op |-> "insert", arg |-> v, set |-> "a",
                    hit |-> Member(heap, header_["a"], v),
                    ret |-> r.heap[r.node].value]
  /\ members' = [members EXCEPT !["a"] = @ \cup {v}]
  /\ UNCHANGED <<header_, it, crashed>>

\* a.remove(a.find(v))
AvlTreeSet_Remove(v) ==
  /\ ~crashed
  /\ LET r == AvlTreeSet_remove(heap, header_["a"], leftmost_["a"],
                                AvlTreeSet_find(heap, header_["a"], v))
     IN /\ heap' = r.heap
        /\ leftmost_' = [leftmost_ EXCEPT !["a"] = r.leftmost]
  /\ last' = [op |-> "remove", arg |-> v, set |-> "a",
              hit |-> Member(heap, header_["a"], v), ret |-> 0]
  /\ members' = [members EXCEPT !["a"] = @ \ {v}]
  /\ UNCHANGED <<header_, it, crashed>>

\* a.rank(a.find(v))
AvlTreeSet_Rank(v) ==
  /\ ~crashed
  /\ LET r == rank(heap, header_["a"], AvlTreeSet_find(heap, header_["a"], v))
     IN /\ crashed' = (r = Bad)
        /\ last' = [op |-> "rank", arg |-> v, set |-> "a",
                    hit |-> AvlTreeSet_find(heap, header_["a"], v)
                              # header_["a"],
                    ret |-> r]
  /\ UNCHANGED <<heap, header_, leftmost_, it, members>>

AvlTreeSet_Next ==
  \/ \E v \in Vals : AvlTreeSet_Insert(v)
  \/ \E v \in Vals : AvlTreeSet_Remove(v)
  \/ \E v \in Vals : AvlTreeSet_Rank(v)

AvlTreeSet_Spec == AvlTreeSet_Init /\ [][AvlTreeSet_Next]_vars

(***************************************************************************)
(* AvlNode::rotate_left, rotate_right and balance_tree on their own: the   *)
(* argument is a tree that no set owns, it is the unique_ptr handed in and *)
(* then the one returned.                                                  *)
(***************************************************************************)

\* Height of the lower of the two subtrees of an argument that is out of
\* balance (the other one is two higher).
MaxSide == 1

\* The AVL trees of height k, as pairs <<left, right>>; <<>> is the empty one.
RECURSIVE AvlShapes(_)
AvlShapes(k) ==
  IF k = 0 THEN {<<>>}
  ELSE IF k = 1 THEN {<< <<>>, <<>> >>}
  ELSE {<<l, r>> : l \in AvlShapes(k - 1), r \in AvlShapes(k - 1)}
       \cup {<<l, r>> : l \in AvlShapes(k - 1), r \in AvlShapes(k - 2)}
       \cup {<<l, r>> : l \in AvlShapes(k - 2), r \in AvlShapes(k - 1)}

\* Trees whose root has balance factor +2 or -2 over two AVL subtrees.
Unbalanced ==
  UNION {{<<l, r>> : l \in AvlShapes(k), r \in AvlShapes(k + 2)}
         \cup {<<l, r>> : l \in AvlShapes(k + 2), r \in AvlShapes(k)}
         : k \in 0..MaxSide}

\* The arguments: the trees out of balance, and the AVL trees up to their
\* height.
Arguments ==
  Unbalanced \cup UNION {AvlShapes(k) : k \in 1..(MaxSide + 2)}

RECURSIVE ShapeSize(_)
ShapeSize(t) == IF t = <<>> THEN 0 ELSE ShapeSize(t[1]) + 1 + ShapeSize(t[2])

RECURSIVE ShapeHeight(_)
ShapeHeight(t) ==
  IF t = <<>> THEN 0 ELSE 1 + Max(ShapeHeight(t[1]), ShapeHeight(t[2]))

\* The address of the root of t when its least value is lo: the node of
\* value v is at address v + 1.
RootOf(t, lo) == IF t = <<>> THEN Null ELSE lo + ShapeSize(t[1]) + 1

\* The memory h with the nodes of t added: values lo, lo + 1, ... in order,
\* heights as update_height leaves them, parents as set_left and set_right
\* leave them.
RECURSIVE Lay(_, _, _, _)
Lay(h, t, lo, parent) ==
  IF t = <<>> THEN h
  ELSE Lay(Lay([h EXCEPT ![RootOf(t, lo)] =
                  [value |-> lo + ShapeSize(t[1]),
                   height |-> ShapeHeight(t),
                   left |-> RootOf(t[1], lo),
                   right |-> RootOf(t[2], lo + ShapeSize(t[1]) + 1),
                   parent |-> parent]],
               t[1], lo, RootOf(t, lo)),
           t[2], lo + ShapeSize(t[1]) + 1, RootOf(t, lo))

\* The heavy child of node has a balance factor of the opposite sign.
Opposite(h, node) ==
  \/ get_balance(h, node) = 2 /\ get_balance(h, h[node].right) = -1
  \/ get_balance(h, node) = -2 /\ get_balance(h, h[node].left) = 1

\* A tree built by std::make_unique<AvlNode<T>>(value), set_left, set_right.
InitTree ==
  /\ \E t \in Arguments :
       /\ heap = Lay([n \in Addr |-> FreeCell], t, 1, Null)
       /\ it = RootOf(t, 1)
  /\ header_ = [s \in Sets |-> Null]
  /\ leftmost_ = [s \in Sets |-> Uninit]
  /\ crashed = FALSE
  /\ last = [op |-> "new", arg |-> 0, set |-> "a", hit |-> FALSE]
  /\ members = [s \in Sets |-> {}]

\* it = AvlNode<T>::balance_tree(std::move(it));  last.arg is the balance
\* factor the argument had, last.hit whether its heavy child leant the
\* other way.
BalanceTree ==
  /\ last.op = "new"
  /\ heap' = balance_tree(heap, it).heap
  /\ it' = balance_tree(heap, it).node
  /\ last' = [op |-> "balance_tree", arg |-> get_balance(heap, it),
              set |-> "a", hit |-> Opposite(heap, it)]
  /\ UNCHANGED <<header_, leftmost_, crashed, members>>

\* it = AvlNode<T>::rotate_left(std::move(it));
RotateLeft ==
  /\ last.op = "new"
  /\ heap[it].right # Null
  /\ heap' = rotate_left(heap, it).heap
  /\ it' = rotate_left(heap, it).node
  /\ last' = [op |-> "rotate_left", arg |-> get_balance(heap, it),
              set |-> "a", hit |-> FALSE]
  /\ UNCHANGED <<header_, leftmost_, crashed, members>>

\* it = AvlNode<T>::rotate_right(std::move(it));
RotateRight ==
  /\ last.op = "new"
  /\ heap[it].left # Null
  /\ heap' = rotate_right(heap, it).heap
  /\ it' = rotate_right(heap, it).node
  /\ last' = [op |-> "rotate_right", arg |-> get_balance(heap, it),
              set |-> "a", hit |-> FALSE]
  /\ UNCHANGED <<header_, leftmost_, crashed, members>>

NextTree == BalanceTree \/ RotateLeft \/ RotateRight

SpecTree == InitTree /\ [][NextTree]_vars

(***************************************************************************)
(* Properties                                                              *)
(***************************************************************************)

A == "a"

\* The values of S in increasing order.
RECURSIVE SortedSeq(_)
SortedSeq(S) ==
  IF S = {} THEN <<>>
  ELSE LET m == CHOOSE x \in S : \A y \in S : x <= y
       IN <<m>> \o SortedSeq(S \ {m})

RECURSIVE Reverse(_)
Reverse(q) == IF q = <<>> THEN <<>> ELSE Reverse(Tail(q)) \o <<Head(q)>>

\* The values visited by ++ from node n until the iterator equals end();
\* ends in Bad when a step fails or end() is not met within fuel steps.
RECURSIVE Forward(_, _, _, _)
Forward(h, hdr, n, fuel) ==
  IF n = hdr THEN <<>>
  ELSE IF n \in {Bad, Null} \/ fuel = 0 THEN <<Bad>>
  ELSE <<h[n].value>> \o Forward(h, hdr, operator_inc(h, n), fuel - 1)

\* The values visited by -- from node n until the iterator equals begin().
RECURSIVE Backward(_, _, _, _)
Backward(h, lm, n, fuel) ==
  IF operator_dec(h, n) \in {Bad, Null} \/ fuel = 0 THEN <<Bad>>
  ELSE IF operator_dec(h, n) = lm THEN <<h[lm].value>>
  ELSE <<h[operator_dec(h, n)].value>>
         \o Backward(h, lm, operator_dec(h, n), fuel - 1)

\* C1: after any sequence of insert calls, ++ from begin() until end() visits
\* exactly the inserted values, without repetition, in increasing order, and
\* the step after the largest one lands on end().
C1_SortedTraversal ==
  Forward(heap, header_[A], leftmost_[A], NumAddr) = SortedSeq(members[A])

\* An iterator has been stepped off the largest of at least four members.
C1_Witness ==
  /\ last.op = "inc"
  /\ it = header_[A]
  /\ Cardinality(members[A]) >= 4

\* C2: after every insert and remove that returns, the true heights of the
\* two subtrees of every node differ by at most one.
C2_Balanced ==
  (~crashed /\ last.op \in {"insert", "remove"}) =>
    \A n \in Tree(heap, header_[A]) :
      LET d == TrueHeight(heap, heap[n].right) - TrueHeight(heap, heap[n].left)
      IN d \in {-1, 0, 1}

\* Every node has smaller values on its left and larger ones on its right,
\* and no value occurs twice.
IsBST(h, hdr) ==
  /\ \A n \in Tree(h, hdr) :
       /\ \A m \in Nodes(h, h[n].left) : h[m].value < h[n].value
       /\ \A m \in Nodes(h, h[n].right) : h[m].value > h[n].value
  /\ \A n, m \in Tree(h, hdr) : n # m => h[n].value # h[m].value

\* C3: after every insert, remove, copy and move that returns, the tree under
\* header->left of every set is a binary search tree without equal values.
C3_BST ==
  ~crashed => \A s \in Sets : header_[s] # Null => IsBST(heap, header_[s])

\* A remove has returned on a set that took its tree from a copy or a move,
\* and left at least three members.
C3_Witness ==
  /\ ~crashed
  /\ last.op = "remove"
  /\ last.hit
  /\ header_[A] # 1
  /\ Cardinality(Tree(heap, header_[A])) >= 3

\* C4: right after insert(v) returns find(v) is not end(), and right after
\* remove(v) returns find(v) is end().
C4_RoundTrip ==
  ~crashed =>
    /\ last.op = "insert" => find(heap, header_[A], last.arg) # header_[A]
    /\ last.op = "remove" => find(heap, header_[A], last.arg) = header_[A]

\* remove has returned after taking a member out of a set that keeps at
\* least three others.
C4_Witness ==
  /\ ~crashed
  /\ last.op = "remove"
  /\ last.hit
  /\ Cardinality(Tree(heap, header_[A])) >= 3

\* C5: remove(v) of a member v goes through no absent node, and every other
\* value that was a member before the call is still found after it.
C5_RemoveExact ==
  (last.op = "remove" /\ last.hit) =>
    /\ ~crashed
    /\ \A w \in members[A] : find(heap, header_[A], w) # header_[A]

\* C6: insert(v) of a value that some node of the tree holds changes no
\* node, link, cached height or leftmost pointer, and leaves the walk from
\* begin() to end() as it was.
C6_DuplicateInsert ==
  [][(last'.op = "insert" /\ last'.hit) =>
       /\ heap' = heap
       /\ header_' = header_
       /\ leftmost_' = leftmost_
       /\ Forward(heap', header_'[A], leftmost_'[A], NumAddr)
            = Forward(heap, header_[A], leftmost_[A], NumAddr)]_vars

\* insert has been called with a value held by a node that is not the root,
\* in a set of at least three members.
C6_Witness ==
  /\ last.op = "insert"
  /\ last.hit
  /\ find(heap, header_[A], last.arg) # heap[header_[A]].left
  /\ Cardinality(Tree(heap, header_[A])) >= 3

\* C7: remove(v) of a value that no node of the tree holds changes nothing:
\* nodes, links, cached heights and the leftmost pointer stay as they were.
C7_RemoveAbsent ==
  [][(last'.op = "remove" /\ ~last'.hit) =>
       /\ heap' = heap
       /\ header_' = header_
       /\ leftmost_' = leftmost_
       /\ crashed' = crashed]_vars

\* remove has been called with a value that is not a member of a set with
\* at least three members, one of them larger than the value.
C7_Witness ==
  /\ last.op = "remove"
  /\ ~last.hit
  /\ Cardinality(Tree(heap, header_[A])) >= 3
  /\ \E n \in Tree(heap, header_[A]) : heap[n].value > last.arg

\* C8: in a set built by insert calls, find(v) returns the node holding v when
\* v was inserted and end() when it was not, and changes nothing.
C8_Find ==
  [][last'.op = "find" =>
       /\ heap' = heap
       /\ header_' = header_
       /\ leftmost_' = leftmost_
       /\ IF last'.arg \in members[A]
          THEN /\ it' \in Tree(heap, header_[A])
               /\ heap[it'].value = last'.arg
          ELSE it' = header_[A]]_vars

\* find has returned a node below the root of a set of at least four members.
C8_Witness ==
  /\ last.op = "find"
  /\ it # header_[A]
  /\ heap[it].parent # header_[A]
  /\ Cardinality(members[A]) >= 4

\* C9: in a set built by insert calls, upper_bound(v) returns the node of the
\* smallest member greater than v, and end() exactly when there is none.
C9_UpperBound ==
  last.op = "upper_bound" =>
    LET above == {m \in members[A] : m > last.arg}
    IN IF above = {} THEN it = header_[A]
       ELSE /\ it \in Tree(heap, header_[A])
            /\ heap[it].value \in above
            /\ \A m \in above : heap[it].value <= m

\* upper_bound has been called with a member and has returned a node, in a
\* set of at least three members.
C9_Witness ==
  /\ last.op = "upper_bound"
  /\ last.arg \in members[A]
  /\ it # header_[A]
  /\ Cardinality(members[A]) >= 3

\* C10: in a non-empty set built by insert calls, -- from end() visits the
\* members in decreasing order, the largest first, and the iterator equals
\* begin() after as many steps as there are members.
C10_BackwardTraversal ==
  members[A] # {} =>
    Backward(heap, leftmost_[A], header_[A], NumAddr)
      = Reverse(SortedSeq(members[A]))

\* An iterator has been stepped back onto begin() in a set of at least four
\* members.
C10_Witness ==
  /\ last.op = "dec"
  /\ it = leftmost_[A]
  /\ Cardinality(members[A]) >= 4

\* The other one of the two sets.
Other(s) == IF s = "a" THEN "b" ELSE "a"

\* C11: after every public operation that returns, leftmost_ of every set is
\* the node reached from its header by left links, so that begin() is the
\* least member, and end() only when the set is empty.
C11_Leftmost ==
  ~crashed =>
    \A s \in Sets :
      header_[s] # Null => leftmost_[s] = descend_left(heap, header_[s])

\* The header and the nodes of the set whose header is hdr.
Owned(h, hdr) == {hdr} \cup Tree(h, hdr)

\* C12: a copy holds exactly the members of the set it was made from and
\* shares no node with it, the copied set is left as it was, and an insert or
\* remove that returns on one of two live sets leaves the other one's header,
\* nodes, links and leftmost pointer as they were.
C12_CopyIndependent ==
  [][/\ last'.op = "copy" =>
          LET d == last'.set
              s == Other(last'.set)
          IN /\ \A v \in Vals :
                  (find(heap', header_'[d], v) # header_'[d])
                    <=> Member(heap, header_[s], v)
             /\ Owned(heap', header_'[d]) \cap Owned(heap', header_'[s]) = {}
             /\ header_'[s] = header_[s]
             /\ leftmost_'[s] = leftmost_[s]
             /\ \A n \in Owned(heap, header_[s]) : heap'[n] = heap[n]
     /\ (last'.op \in {"insert", "remove"} /\ Both /\ ~crashed') =>
          LET o == Other(last'.set)
          IN /\ header_'[o] = header_[o]
             /\ leftmost_'[o] = leftmost_[o]
             /\ \A n \in Owned(heap, header_[o]) : heap'[n] = heap[n]]_vars

\* A member has been removed from the copy of a set of at least three
\* members, with both sets alive.
C12_Witness ==
  /\ ~crashed
  /\ Both
  /\ last.op = "remove"
  /\ last.set = "b"
  /\ last.hit
  /\ Cardinality(Tree(heap, header_["a"])) >= 3
  /\ Cardinality(Tree(heap, header_["b"])) >= 2

\* C13: right after dest = std::move(src), find on src is end() for every
\* value, and find on dest succeeds exactly for the values src held before
\* the move, whatever dest held.
C13_MoveTransfers ==
  [][last'.op = "move" =>
       LET d == last'.set
           s == Other(last'.set)
       IN \A v \in Vals :
            /\ find(heap', header_'[s], v) = header_'[s]
            /\ (find(heap', header_'[d], v) # header_'[d])
                 <=> Member(heap, header_[s], v)]_vars

\* A set of at least three members has been moved.
C13_Witness ==
  /\ last.op = "move"
  /\ Cardinality(Tree(heap, header_[last.set])) >= 3
  /\ Tree(heap, header_[Other(last.set)]) = {}

\* The subtree at n without its addresses: values, cached heights, and
\* whether each parent field refers to the holder.
RECURSIVE Shape(_, _, _)
Shape(h, n, holder) ==
  IF n = Null THEN <<>>
  ELSE <<Shape(h, h[n].left, n), h[n].value, h[n].height,
         h[n].parent = holder, Shape(h, h[n].right, n)>>

\* A set without its addresses: the header's fields, the tree, and what
\* begin() refers to.
SetShape(h, hdr, lm) ==
  [value |-> h[hdr].value, height |-> h[hdr].height,
   parent |-> h[hdr].parent, right |-> h[hdr].right,
   tree |-> Shape(h, h[hdr].left, hdr),
   begin |-> IF lm = hdr THEN "end" ELSE <<h[lm].value>>]

\* The memory and the set right after AvlOrderedSet().
NewHeap == [n \in Addr |-> IF n = 1 THEN AvlNodeDefault ELSE FreeCell]

NewShape == SetShape(NewHeap, 1, 1)

\* The set after insert(v), from its heap, header and leftmost pointer.
AfterInsert(h, hdr, lm, v) ==
  SetShape(insert(h, hdr, lm, v).heap, hdr, insert(h, hdr, lm, v).leftmost_)

AfterRemove(h, hdr, lm, v) ==
  SetShape(remove(h, hdr, lm, v).heap, hdr, remove(h, hdr, lm, v).leftmost_)

\* C14: a moved-from set is in the state of a newly constructed one, with a
\* header of its own on which begin() is end(); every insert and remove on
\* it gives what it gives on a new set; and the first call made on it after
\* the move leaves the destination's header, nodes and members as they were.
C14_MovedFromReusable ==
  [][/\ last'.op = "move" =>
          LET d == last'.set
              s == Other(last'.set)
          IN /\ header_'[s] # Null
             /\ header_'[s] # header_'[d]
             /\ header_'[s] \notin Owned(heap', header_'[d])
             /\ leftmost_'[s] = header_'[s]
             /\ SetShape(heap', header_'[s], leftmost_'[s]) = NewShape
             /\ \A v \in Vals :
                  /\ AfterInsert(heap', header_'[s], leftmost_'[s], v)
                       = AfterInsert(NewHeap, 1, 1, v)
                  /\ AfterRemove(heap', header_'[s], leftmost_'[s], v)
                       = AfterRemove(NewHeap, 1, 1, v)
     /\ (last.op = "move" /\ last'.op \in {"insert", "remove"}
         /\ last'.set = Other(last.set)) =>
          /\ ~crashed'
          /\ header_'[last.set] = header_[last.set]
          /\ leftmost_'[last.set] = leftmost_[last.set]
          /\ \A n \in Owned(heap, header_[last.set]) : heap'[n] = heap[n]
          /\ SetShape(heap', header_'[last'.set], leftmost_'[last'.set])
               = IF last'.op = "insert"
                 THEN AfterInsert(NewHeap, 1, 1, last'.arg)
                 ELSE NewShape]_vars

\* A value has been inserted into a set whose tree of at least three members
\* was moved away.
C14_Witness ==
  /\ Both
  /\ last.op = "insert"
  /\ last.set = "a"
  /\ header_["a"] # 1
  /\ Cardinality(Tree(heap, header_["a"])) = 1
  /\ Cardinality(Tree(heap, header_["b"])) >= 3

\* C15: after every insert and remove that returns, the cached height of
\* every node of the tree is one more than the larger true height of its two
\* subtrees, an absent one counting 0.
C15_CachedHeights ==
  (~crashed /\ last.op \in {"insert", "remove"}) =>
    \A n \in Tree(heap, header_[A]) : heap[n].height = TrueHeight(heap, n)

\* A node's parent field refers to the node that holds it, the root's to the
\* header, and the header holds nothing on its right.
ParentsOK(h, hdr) ==
  /\ h[hdr].right = Null
  /\ h[hdr].left # Null => h[h[hdr].left].parent = hdr
  /\ \A n \in Tree(h, hdr) :
       /\ h[n].left # Null => h[h[n].left].parent = n
       /\ h[n].right # Null => h[h[n].right].parent = n

\* C16: after every insert, remove and copy that returns, in every set each
\* node's parent field refers to the node whose left or right slot holds it,
\* the root's parent is the header, and header->right is absent.
C16_ParentLinks ==
  ~crashed => \A s \in Sets : header_[s] # Null => ParentsOK(heap, header_[s])

\* A member has been removed from a set that took its tree from a copy or a
\* move, and the set keeps at least four nodes.
C16_Witness ==
  /\ ~crashed
  /\ last.op = "remove"
  /\ last.hit
  /\ header_[A] # 1
  /\ Cardinality(Tree(heap, header_[A])) >= 4

\* C17: in AvlTreeSet, rank of an iterator to a member is the number of
\* members strictly less than the member it refers to.
C17_Rank ==
  (last.op = "rank" /\ last.hit) =>
    last.ret = Cardinality({m \in members[A] : m < last.arg})

\* The nodes that one call of balance_ancestors_(node) hands to balance_tree,
\* in the order of the walk, from the turn at current on.
RECURSIVE balanced_by(_, _, _, _)
balanced_by(h, hdr, node, current) ==
  IF current = hdr THEN <<>>
  ELSE <<Get(h, child_slot(h, node, current))>>
         \o balanced_by(balance_child(h, node, current), hdr, node,
                        balance_child(h, node, current)[current].parent)

\* The nodes from n up to the root, the node in header->left.
RECURSIVE PathUp(_, _, _)
PathUp(h, hdr, n) ==
  IF n = hdr THEN <<>> ELSE <<n>> \o PathUp(h, hdr, h[n].parent)

\* The memory of insert(v) at its call of balance_ancestors_, v not a member.
Attached(h, hdr, v) ==
  insert_attach(h, insert_descend(h, <<hdr, "left">>, hdr, v),
                Alloc(h, v, hdr), v)

\* C18: the call of balance_ancestors_ that insert makes for its new node
\* hands to balance_tree the nodes of the path from the new node's parent up
\* to the root, each of them once and in that order.
C18_WalkVisitsPath ==
  [][(last'.op = "insert" /\ ~last'.hit) =>
       balanced_by(Attached(heap, header_[A], last'.arg), header_[A],
                   Alloc(heap, last'.arg, header_[A]),
                   Attached(heap, header_[A], last'.arg)
                     [Alloc(heap, last'.arg, header_[A])].parent)
         = PathUp(Attached(heap, header_[A], last'.arg), header_[A],
                  Attached(heap, header_[A], last'.arg)
                    [Alloc(heap, last'.arg, header_[A])].parent)]_vars

\* The parent of the node that holds v.
HolderOf(h, hdr, v) == h[find(h, hdr, v)].parent

\* C19: after remove(v) of a member has returned, the cached height of the
\* node that held the removed one, a leaf included, has been recomputed from
\* its children, and it is not left with a balance factor of +-2.
C19_RemoveRebalances ==
  [][(last'.op = "remove" /\ last'.hit /\ ~crashed'
      /\ HolderOf(heap, header_[A], last'.arg) # header_[A]) =>
       /\ update_height(heap', HolderOf(heap, header_[A], last'.arg)) = heap'
       /\ get_balance(heap', HolderOf(heap, header_[A], last'.arg))
            \in {-1, 0, 1}]_vars

\* The values of the subtree at n, left to right.
RECURSIVE InOrder(_, _)
InOrder(h, n) ==
  IF n = Null THEN <<>>
  ELSE InOrder(h, h[n].left) \o <<h[n].value>> \o InOrder(h, h[n].right)

\* The subtree at n is an AVL tree whose cached heights are exact and whose
\* nodes below n have their holder as parent.
IsAvl(h, n) ==
  \A m \in Nodes(h, n) :
    /\ h[m].height = TrueHeight(h, m)
    /\ TrueHeight(h, h[m].right) - TrueHeight(h, h[m].left) \in {-1, 0, 1}
    /\ h[m].left # Null => h[h[m].left].parent = m
    /\ h[m].right # Null => h[h[m].right].parent = m

\* C20: balance_tree of a node whose balance factor is +2 or -2 over two AVL
\* subtrees with exact heights returns an AVL tree with the same values in
\* the same order, exact cached heights and every node below the root
\* pointing to its holder; the root returned is the heavy child's inner
\* child when the heavy child leant the other way (double rotation), and the
\* heavy child otherwise (single rotation).
C20_BalanceTree ==
  [][(last'.op = "balance_tree" /\ get_balance(heap, it) \in {-2, 2}
      /\ IsAvl(heap, heap[it].left) /\ IsAvl(heap, heap[it].right)) =>
       /\ InOrder(heap', it') = InOrder(heap, it)
       /\ Nodes(heap', it') = Nodes(heap, it)
       /\ IsAvl(heap', it')
       /\ it' = IF get_balance(heap, it) = 2
                THEN IF Opposite(heap, it) THEN heap[heap[it].right].left
                     ELSE heap[it].right
                ELSE IF Opposite(heap, it) THEN heap[heap[it].left].right
                     ELSE heap[it].left]_vars

\* balance_tree has made a double rotation in a tree of at least six nodes.
C20_Witness ==
  /\ last.op = "balance_tree"
  /\ last.arg = 2
  /\ last.hit
  /\ Cardinality(Nodes(heap, it)) >= 6

\* C21: in AvlTreeSet, insert(v) of a value that some node holds, wherever
\* it is in the tree, adds no node and returns an iterator to a node holding
\* v, so that no two nodes hold equal values.
C21_InsertExisting ==
  [][(last'.op = "insert" /\ last'.hit) =>
       /\ Tree(heap', header_'[A]) = Tree(heap, header_[A])
       /\ last'.ret = last'.arg
       /\ \A n, m \in Tree(heap', header_'[A]) :
            n # m => heap'[n].value # heap'[m].value]_vars

\* C22: in every insert and remove, each rotation that balance_tree invokes,
\* the inner one of a double rotation included, is handed a node that has
\* the child the rotation takes as pivot.
C22_RotationsDefined ==
  [][/\ last'.op = "insert" =>
          ~insert(heap, header_[A], leftmost_[A], last'.arg).rot
     /\ last'.op = "remove" =>
          ~remove(heap, header_[A], leftmost_[A], last'.arg).rot]_vars

\* insert has returned after a double rotation that made the new node the
\* root of a subtree, with the two nodes above it as its children.
C22_Witness ==
  /\ ~crashed
  /\ last.op = "insert"
  /\ ~last.hit
  /\ heap[find(heap, header_[A], last.arg)].left # Null
  /\ heap[find(heap, header_[A], last.arg)].right # Null

\* C23: an iterator to a member x refers to the same live node, still
\* holding x and still in the set, after insert of any value and after
\* remove of any other member; only the node of the removed value goes, and
\* not the in-order successor that takes its place.
C23_IteratorsStayValid ==
  [][last'.op \in {"insert", "remove"} =>
       \A n \in Tree(heap, header_[A]) :
         (last'.op = "remove" => heap[n].value # last'.arg) =>
           /\ heap'[n] # FreeCell
           /\ heap'[n].value = heap[n].value]_vars

====
